---- MODULE Spec2Model ----
(***************************************************************************)
(* Model of the constrained graph-traversal engine of smd-visualization:   *)
(*   - path_visualize.py : build_adjacency_undirected, validate_ss_contexts*)
(*                         and find_all_paths_bfs (the Path Enumerator);   *)
(*   - visualize_node.py : build_adjacency, is_associated_with_valid,      *)
(*                         find_internal_edges and expand_graph (the Ego   *)
(*                         Expander).                                      *)
(* Each program loads the edge collection, builds its adjacency view and   *)
(* answers one query.                                                      *)
(***************************************************************************)
EXTENDS Integers, Sequences, FiniteSets, TLC

VARIABLES
    edges,          \* the edge collection read by load_edges (a list of records)
    pc,             \* position of main(): "load", "built", "expanding", "done"
    adj,            \* adjacency view built from the edge collection
    edge_lookup,    \* (from, to) -> edge record, path_visualize.py only
    args,           \* the arguments of the query being answered
    path_results,   \* the list returned by find_all_paths_bfs
    nodes,                      \* expand_graph: cumulative node set
    graph_edges,                \* expand_graph: cumulative edge list (the result)
    edge_set,                   \* expand_graph: (from, to, type) keys recorded
    node_levels,                \* expand_graph: level at which a node was added
    associated_with_contexts,   \* expand_graph: contexts of accepted associations
    pending_associated_with,    \* expand_graph: associations waiting for validation
    current_level_nodes,        \* expand_graph: the frontier, an unordered set
    lvl,                        \* expand_graph: the level about to be expanded
    first_run,                  \* result of an earlier run of the same query
    locals          \* loop variables of the running query, when its loops are followed

pathVars == <<edge_lookup, path_results>>

expandVars == <<nodes, graph_edges, edge_set, node_levels, associated_with_contexts,
                pending_associated_with, current_level_nodes, lvl>>

vars == <<edges, pc, adj, args, pathVars, expandVars, first_run, locals>>

(***************************************************************************)
(* Bounds of the explored inputs.                                          *)
(***************************************************************************)
MaxPathEdges == 3
MaxPaths == 2
MaxDepth == 2
MaxNodeEdges == 3
MaxLevel == 2
MaxFanout == 2
MaxRerunEdges == 5

(***************************************************************************)
(* Node ids.  The first token of an id is its type tag; NodeOrder lists    *)
(* the ids in the order Python's string comparison gives them.             *)
(***************************************************************************)
NodeOrder == <<"D_X", "D_Y", "S_A", "S_B", "S_C">>

NodeIds == {NodeOrder[i] : i \in DOMAIN NodeOrder}

\* n.startswith("S_")
IsSymptom(n) == n \in {"S_A", "S_B", "S_C"}

NoArgs == [op |-> "none"]

NoRun == [nodes |-> {}, edges |-> <<>>, ran |-> FALSE]

NoLocals == [phase |-> "none"]

\* An edge record of all_edges.json.  context is the list of context ids;
\* the empty list stands for an absent or empty "context" field.
EdgeRec(f, t, ty, ctx) == [from |-> f, to |-> t, type |-> ty, context |-> ctx, reversed |-> FALSE]

\* Edge records the path program may meet in its edge collection.
PathFeed ==
    { EdgeRec("S_A", "S_B", "ASSOCIATED_WITH", <<"D_X">>),
      EdgeRec("S_A", "S_B", "ASSOCIATED_WITH", <<"D_Y">>),
      EdgeRec("S_A", "S_B", "ASSOCIATED_WITH", <<>>),
      EdgeRec("S_B", "S_C", "ASSOCIATED_WITH", <<"D_X">>),
      EdgeRec("S_B", "S_A", "SUGGESTS", <<>>),
      EdgeRec("S_A", "S_A", "ASSOCIATED_WITH", <<"D_X">>),
      EdgeRec("D_X", "S_A", "HAS_SYMPTOM", <<>>),
      EdgeRec("D_X", "S_B", "HAS_SYMPTOM", <<>>),
      EdgeRec("D_X", "S_C", "HAS_SYMPTOM", <<>>),
      EdgeRec("S_B", "D_X", "RULES_OUT", <<>>),
      EdgeRec("D_X", "S_A", "ASSOCIATED_WITH", <<>>) }

(***************************************************************************)
(* path_visualize.py                                                       *)
(***************************************************************************)

\* dict.get(key, default) on a mapping held as a function
Get(map, key, default) == IF key \in DOMAIN map THEN map[key] ELSE default

\* map[key] = value
Put(map, key, value) ==
    [k \in (DOMAIN map) \cup {key} |-> IF k = key THEN value ELSE map[k]]

\* adj[key].append(value) on a defaultdict(list)
AppendTo(map, key, value) == Put(map, key, Append(Get(map, key, <<>>), value))

\* the reversed record built without lines 111-112
ReversedEdge_NoContext(edge) ==
    [from |-> edge.to, to |-> edge.from, type |-> edge.type,
     context |-> <<>>, reversed |-> TRUE]

\* the reversed record synthesized for the reverse lookup key
ReversedEdge(edge) ==
    [from |-> edge.to, to |-> edge.from, type |-> edge.type,
     context |-> edge.context, reversed |-> TRUE]

RECURSIVE build_adjacency_undirected(_, _, _)
build_adjacency_undirected(es, a, l) ==
    IF es = <<>> THEN [adj |-> a, edge_lookup |-> l]
    ELSE LET edge == Head(es)
             l1 == Put(l, <<edge.from, edge.to>>, edge)
             l2 == Put(l1, <<edge.to, edge.from>>, ReversedEdge(edge))
             a1 == AppendTo(a, edge.from, edge.to)
             a2 == AppendTo(a1, edge.to, edge.from)
         IN build_adjacency_undirected(Tail(es), a2, l2)

get_context_ids(context) == {context[i] : i \in DOMAIN context}

\* the lookup of lines 158: edge_lookup.get((n1, n2)) or edge_lookup.get((n2, n1))
NoEdge == [type |-> "none", context |-> <<>>]

LookupEither(l, n1, n2) ==
    LET e1 == Get(l, <<n1, n2>>, NoEdge)
    IN IF e1 # NoEdge THEN e1 ELSE Get(l, <<n2, n1>>, NoEdge)

\* the loop of validate_ss_contexts that gathers the context set of every
\* S-S ASSOCIATED_WITH pair; ok is FALSE when a pair has no context
RECURSIVE CollectSSContexts(_, _, _, _)
CollectSSContexts(path, i, l, ss_contexts) ==
    IF i > Len(path) - 1 THEN [ok |-> TRUE, ss_contexts |-> ss_contexts]
    ELSE LET n1 == path[i]
             n2 == path[i + 1]
             edge_info == LookupEither(l, n1, n2)
             ctx_ids == get_context_ids(edge_info.context)
         IN IF IsSymptom(n1) /\ IsSymptom(n2) /\ edge_info.type = "ASSOCIATED_WITH"
            THEN IF ctx_ids # {}
                 THEN CollectSSContexts(path, i + 1, l, Append(ss_contexts, ctx_ids))
                 ELSE [ok |-> FALSE, ss_contexts |-> <<>>]
            ELSE CollectSSContexts(path, i + 1, l, ss_contexts)

\* the intersection loop of validate_ss_contexts, with its early exit
RECURSIVE IntersectFrom(_, _, _)
IntersectFrom(ss_contexts, i, common) ==
    IF i > Len(ss_contexts) THEN [is_valid |-> TRUE, common |-> common]
    ELSE LET c == common \cap ss_contexts[i]
         IN IF c = {} THEN [is_valid |-> FALSE, common |-> {}]
            ELSE IntersectFrom(ss_contexts, i + 1, c)

validate_ss_contexts(path, l) ==
    LET r == CollectSSContexts(path, 1, l, <<>>)
    IN IF ~r.ok THEN [is_valid |-> FALSE, common |-> {}]
       ELSE IF r.ss_contexts = <<>> THEN [is_valid |-> TRUE, common |-> {}]
       ELSE IntersectFrom(r.ss_contexts, 2, r.ss_contexts[1])

\* sorted(ids): the ids of a list in string order, duplicates kept
Count(s, n) == Cardinality({j \in DOMAIN s : s[j] = n})

RECURSIVE SortedFrom(_, _)
SortedFrom(s, i) ==
    IF i > Len(NodeOrder) THEN <<>>
    ELSE [j \in 1..Count(s, NodeOrder[i]) |-> NodeOrder[i]] \o SortedFrom(s, i + 1)

Sorted(s) == SortedFrom(s, 1)

\* the early return of line 205 left out
StartIsEnd_Never(start, end) == FALSE

\* the early return of line 205 taken whatever the end
StartIsEnd_Always(start, end) == TRUE

\* line 205: the trivial query
StartIsEnd(start, end) == start = end

\* line 216: the while condition of the search loop
LoopContinues(queue, found_paths, max_paths) ==
    queue # <<>> /\ Len(found_paths) < max_paths * 3

\* the depth test of line 220 off by one
DepthReached_OffByOne(current_depth, max_depth) == current_depth > max_depth

\* line 220: a queue entry at the depth limit is not expanded
DepthReached(current_depth, max_depth) == current_depth >= max_depth

\* the visited test of line 227 left out
AlreadyVisited_Unchecked(neighbor, visited) == FALSE

\* line 227: a neighbor already on the partial path is skipped
AlreadyVisited(neighbor, visited) == neighbor \in visited

\* the uniqueness test of line 236 left out
AlreadySeen_Unchecked(path_tuple, seen_paths) == FALSE

\* line 236: a complete path already recorded is skipped
AlreadySeen(path_tuple, seen_paths) == path_tuple \in seen_paths

\* lines 226-253: the loop over the sorted neighbors of one queue entry.
\* st holds queue, found_paths, seen_paths and first_hop_count.
RECURSIVE ForNeighbors(_, _, _, _, _, _)
ForNeighbors(neighbors, i, cur, st, end, l) ==
    IF i > Len(neighbors) THEN st
    ELSE LET neighbor == neighbors[i]
             new_path == Append(cur.path, neighbor)
             new_visited == cur.visited \cup {neighbor}
         IN IF AlreadyVisited(neighbor, cur.visited)
            THEN ForNeighbors(neighbors, i + 1, cur, st, end, l)
            ELSE IF neighbor = end
            THEN IF AlreadySeen(new_path, st.seen_paths)
                 THEN ForNeighbors(neighbors, i + 1, cur, st, end, l)
                 ELSE LET st1 == [st EXCEPT !.seen_paths = @ \cup {new_path}]
                          v == validate_ss_contexts(new_path, l)
                          first_hop == new_path[2]
                          st2 == [st1 EXCEPT
                                    !.first_hop_count =
                                        Put(@, first_hop, Get(@, first_hop, 0) + 1),
                                    !.found_paths =
                                        Append(@, [path |-> new_path, common_ctx |-> v.common])]
                      IN IF ~v.is_valid
                         THEN ForNeighbors(neighbors, i + 1, cur, st1, end, l)
                         ELSE ForNeighbors(neighbors, i + 1, cur, st2, end, l)
            ELSE LET st3 == [st EXCEPT !.queue =
                                Append(@, [current |-> neighbor, path |-> new_path,
                                           visited |-> new_visited])]
                 IN ForNeighbors(neighbors, i + 1, cur, st3, end, l)

\* lines 216-253: the search loop
RECURSIVE SearchLoop(_, _, _, _, _, _)
SearchLoop(st, end, a, l, max_paths, max_depth) ==
    IF ~LoopContinues(st.queue, st.found_paths, max_paths) THEN st
    ELSE LET cur == Head(st.queue)
             st0 == [st EXCEPT !.queue = Tail(@)]
             current_depth == Len(cur.path) - 1
             neighbors == Sorted(Get(a, cur.current, <<>>))
         IN IF DepthReached(current_depth, max_depth)
            THEN SearchLoop(st0, end, a, l, max_paths, max_depth)
            ELSE SearchLoop(ForNeighbors(neighbors, 1, cur, st0, end, l),
                            end, a, l, max_paths, max_depth)

\* the sort key without the first-hop frequency
sort_key_LengthOnly(item, first_hop_count) == <<Len(item.path), 0>>

\* the sort key with the length negated: longest paths first
sort_key_LongestFirst(item, first_hop_count) ==
    <<0 - Len(item.path),
      IF Len(item.path) > 1 THEN Get(first_hop_count, item.path[2], 0) ELSE 0>>

\* lines 256-259: (len(p), first_hop_count.get(first_hop, 0))
sort_key(item, first_hop_count) ==
    <<Len(item.path),
      IF Len(item.path) > 1 THEN Get(first_hop_count, item.path[2], 0) ELSE 0>>

\* tuple comparison k1 <= k2 used by list.sort
KeyLE(k1, k2) == k1[1] < k2[1] \/ (k1[1] = k2[1] /\ k1[2] <= k2[2])

\* line 261: list.sort(key=sort_key), a stable sort
RECURSIVE InsertSorted(_, _, _)
InsertSorted(sorted, item, fhc) ==
    IF sorted = <<>> THEN <<item>>
    ELSE IF KeyLE(sort_key(sorted[Len(sorted)], fhc), sort_key(item, fhc))
         THEN Append(sorted, item)
         ELSE Append(InsertSorted(SubSeq(sorted, 1, Len(sorted) - 1), item, fhc),
                     sorted[Len(sorted)])

RECURSIVE SortPaths(_, _, _)
SortPaths(found, i, fhc) ==
    IF i = 0 THEN <<>>
    ELSE InsertSorted(SortPaths(found, i - 1, fhc), found[i], fhc)

\* line 262: found_paths[:max_paths]
Truncate(s, n) == SubSeq(s, 1, IF n < Len(s) THEN n ELSE Len(s))

find_all_paths_bfs(start, end, a, l, max_paths, max_depth) ==
    IF StartIsEnd(start, end) THEN <<[path |-> <<start>>, common_ctx |-> {}]>>
    ELSE LET st == [queue |-> <<[current |-> start, path |-> <<start>>, visited |-> {start}]>>,
                    found_paths |-> <<>>,
                    seen_paths |-> {},
                    first_hop_count |-> <<>>]
             fin == SearchLoop(st, end, a, l, max_paths, max_depth)
         IN Truncate(SortPaths(fin.found_paths, Len(fin.found_paths), fin.first_hop_count),
                     max_paths)

(***************************************************************************)
(* main() of path_visualize.py: load the edges, build the undirected view, *)
(* answer one find_paths query.                                            *)
(***************************************************************************)
Init ==
    /\ edges = <<>>
    /\ pc = "load"
    /\ adj = <<>>
    /\ edge_lookup = <<>>
    /\ args = NoArgs
    /\ path_results = <<>>
    /\ nodes = {}
    /\ graph_edges = <<>>
    /\ edge_set = {}
    /\ node_levels = <<>>
    /\ associated_with_contexts = <<>>
    /\ pending_associated_with = <<>>
    /\ current_level_nodes = {}
    /\ lvl = 0
    /\ first_run = NoRun
    /\ locals = NoLocals

\* load_edges appends one record of the feed
PathLoadEdge ==
    /\ pc = "load"
    /\ Len(edges) < MaxPathEdges
    /\ \E e \in PathFeed : edges' = Append(edges, e)
    /\ UNCHANGED <<pc, adj, args, pathVars, expandVars, first_run, locals>>

\* edge["from"], edge["to"], edge["type"] (lines 102-104; lines 172-174 of
\* visualize_node.py): subscripting a record that lacks the key raises
\* KeyError, which nothing catches
RaisesKeyError(es) ==
    \E k \in DOMAIN es : ~({"from", "to", "type"} \subseteq DOMAIN es[k])

PathBuild ==
    /\ pc = "load"
    /\ IF RaisesKeyError(edges)
       THEN /\ pc' = "crashed"
            /\ UNCHANGED <<adj, edge_lookup>>
       ELSE /\ LET b == build_adjacency_undirected(edges, <<>>, <<>>)
               IN /\ adj' = b.adj
                  /\ edge_lookup' = b.edge_lookup
            /\ pc' = "built"
    /\ UNCHANGED <<edges, args, path_results, expandVars, first_run, locals>>

FindPaths ==
    /\ pc = "built"
    /\ \E start \in {"S_A"}, end \in {"S_A", "S_B", "S_C", "D_X"},
          max_paths \in 1..MaxPaths, max_depth \in 1..MaxDepth :
          /\ args' = [op |-> "find_paths", start |-> start, end |-> end,
                      max_paths |-> max_paths, max_depth |-> max_depth]
          /\ path_results' =
                find_all_paths_bfs(start, end, adj, edge_lookup, max_paths, max_depth)
    /\ pc' = "done"
    /\ UNCHANGED <<edges, adj, edge_lookup, expandVars, first_run, locals>>

NextPath == PathLoadEdge \/ PathBuild \/ FindPaths

SpecPath == Init /\ [][NextPath]_vars

PathDone == pc = "done" /\ args.op = "find_paths"

(***************************************************************************)
(* visualize_node.py                                                       *)
(***************************************************************************)
EXCLUDED_EDGE_TYPES_FOR_TRAVERSAL == {"RULES_OUT", "PERTINENT_NEGATIVE"}

\* the skip of line 179 left out
IsExcludedType_None(edge_type) == FALSE

\* line 179: the record is left out of the directed adjacency
IsExcludedType(edge_type) == edge_type \in EXCLUDED_EDGE_TYPES_FOR_TRAVERSAL

\* lines 186-188: only ASSOCIATED_WITH entries carry the context
EntryContext(edge) ==
    IF edge.type = "ASSOCIATED_WITH" /\ edge.context # <<>> THEN edge.context ELSE <<>>

RECURSIVE build_adjacency(_, _)
build_adjacency(es, a) ==
    IF es = <<>> THEN a
    ELSE LET edge == Head(es)
             edge_out == [to |-> edge.to, type |-> edge.type, dir |-> "out",
                          context |-> EntryContext(edge)]
             edge_in == [from |-> edge.from, type |-> edge.type, dir |-> "in",
                         context |-> EntryContext(edge)]
         IN IF IsExcludedType(edge.type)
            THEN build_adjacency(Tail(es), a)
            ELSE build_adjacency(Tail(es),
                                 AppendTo(AppendTo(a, edge.from, edge_out), edge.to, edge_in))

\* the test of line 228 with "or" for "and"
BothInGraph_EitherEnd(from_id, to_id, node_set) ==
    from_id \in node_set \/ to_id \in node_set

\* line 228: both nodes must be in the graph
BothInGraph(from_id, to_id, node_set) ==
    from_id \in node_set /\ to_id \in node_set

\* lines 216-239: the closure pass; the records it builds carry no context
RECURSIVE find_internal_edges(_, _, _, _)
find_internal_edges(node_set, all_edges, es, internal_edges) ==
    IF all_edges = <<>> THEN [edge_set |-> es, internal_edges |-> internal_edges]
    ELSE LET edge == Head(all_edges)
             edge_key == <<edge.from, edge.to, edge.type>>
         IN IF BothInGraph(edge.from, edge.to, node_set) /\ edge_key \notin es
            THEN find_internal_edges(node_set, Tail(all_edges), es \cup {edge_key},
                    Append(internal_edges,
                           [from |-> edge.from, to |-> edge.to, type |-> edge.type,
                            context |-> <<>>]))
            ELSE find_internal_edges(node_set, Tail(all_edges), es, internal_edges)

\* the test of line 273 left out: any accepted association validates
SharesContext_AnyExisting(ctx_ids, awc) == awc # <<>>

\* lines 271-274: some accepted association shares a context id
SharesContext(ctx_ids, awc) ==
    \E i \in DOMAIN awc : ctx_ids \cap awc[i] # {}

is_associated_with_valid(edge_neighbor, ns, awc) ==
    LET ctx_ids == get_context_ids(edge_neighbor.context)
    IN IF ctx_ids = {} THEN [is_valid |-> FALSE, ctx_ids |-> {}]
       ELSE IF ns \cap ctx_ids # {} THEN [is_valid |-> TRUE, ctx_ids |-> ctx_ids]
       ELSE IF SharesContext(ctx_ids, awc) THEN [is_valid |-> TRUE, ctx_ids |-> ctx_ids]
       ELSE [is_valid |-> FALSE, ctx_ids |-> ctx_ids]

\* lines 312-314: by_type, a mapping that keeps the order in which its keys
\* were first inserted, held as a list of (type, entries)
RECURSIVE GroupByType(_, _, _)
GroupByType(all_neighbors, i, by_type) ==
    IF i > Len(all_neighbors) THEN by_type
    ELSE LET n == all_neighbors[i]
             at == {k \in DOMAIN by_type : by_type[k].type = n.type}
         IN IF at = {}
            THEN GroupByType(all_neighbors, i + 1,
                             Append(by_type, [type |-> n.type, entries |-> <<n>>]))
            ELSE GroupByType(all_neighbors, i + 1,
                    [k \in DOMAIN by_type |->
                        IF k \in at THEN [by_type[k] EXCEPT !.entries = Append(@, n)]
                        ELSE by_type[k]])

\* the type keys taken in the reverse of their insertion order
TypeKeys_Reversed(by_type) ==
    [k \in DOMAIN by_type |-> by_type[Len(by_type) + 1 - k].type]

\* line 320: list(by_type.keys()), in insertion order
TypeKeys(by_type) == [k \in DOMAIN by_type |-> by_type[k].type]

EntriesOf(by_type, etype) ==
    LET k == CHOOSE k \in DOMAIN by_type : by_type[k].type = etype
    IN by_type[k].entries

\* lines 322-324: n = by_type[etype].pop(0), the key deleted when its list empties
PopFirst(by_type, etype) ==
    LET k == CHOOSE k \in DOMAIN by_type : by_type[k].type = etype
        rest == Tail(by_type[k].entries)
    IN IF rest = <<>>
       THEN SubSeq(by_type, 1, k - 1) \o SubSeq(by_type, k + 1, Len(by_type))
       ELSE [by_type EXCEPT ![k].entries = rest]

\* the while condition of line 319 without its test of by_type
BudgetLeft_NoEmptyTest(new_neighbors_count, max_edges, by_type) ==
    new_neighbors_count < max_edges

\* line 319: the while condition of the round-robin selection
BudgetLeft(new_neighbors_count, max_edges, by_type) ==
    new_neighbors_count < max_edges /\ by_type # <<>>

\* the test of line 342 left out
KeyRecorded_Never(edge_key, es) == FALSE

\* line 342: the (from, to, type) key is already in edge_set
KeyRecorded(edge_key, es) == edge_key \in es

\* the test of line 377 always failing: no neighbor is added
IsNewNode_Never(neighbor_id, ns) == FALSE

\* the test of line 377 left out: every recorded edge counts
IsNewNode_Always(neighbor_id, ns) == TRUE

\* line 333: is_new_node = neighbor_id not in nodes
IsNewNode(neighbor_id, ns) == neighbor_id \notin ns

\* lines 326-381: one adjacency entry n of frontier node node_id.
\* st is the expansion state; continued tells that the iteration ended with
\* "continue", so that the budget test of line 383 is skipped.
ProcessEntry(n, node_id, st, level_no) ==
    LET neighbor_id == IF n.dir = "out" THEN n.to ELSE n.from
        is_new_node == IsNewNode(neighbor_id, st.nodes)
        from_id == IF n.dir = "out" THEN node_id ELSE n.from
        to_id == IF n.dir = "out" THEN n.to ELSE node_id
        edge_key == <<from_id, to_id, n.type>>
        v == is_associated_with_valid(n, st.nodes, st.associated_with_contexts)
        parked == [st EXCEPT !.pending_associated_with =
                        Append(@, [from |-> from_id, to |-> to_id,
                                   neighbor_id |-> neighbor_id, edge_info |-> n,
                                   edge_key |-> edge_key, ctx_ids |-> v.ctx_ids,
                                   level |-> level_no])]
        edge_data == [from |-> from_id, to |-> to_id, type |-> n.type,
                      context |-> IF n.type = "ASSOCIATED_WITH" THEN n.context ELSE <<>>]
        st1 == [st EXCEPT
                  !.associated_with_contexts =
                      IF n.type = "ASSOCIATED_WITH" /\ v.ctx_ids # {}
                      THEN Append(@, v.ctx_ids) ELSE @,
                  !.edge_set = @ \cup {edge_key},
                  !.edges = Append(@, edge_data)]
        st2 == [st1 EXCEPT
                  !.nodes = @ \cup {neighbor_id},
                  !.node_levels = Put(@, neighbor_id, level_no),
                  !.next_level_nodes = @ \cup {neighbor_id},
                  !.new_neighbors_count = @ + 1]
    IN IF KeyRecorded(edge_key, st.edge_set) THEN [st |-> st, continued |-> TRUE]
       ELSE IF n.type = "ASSOCIATED_WITH" /\ ~v.is_valid
            THEN [st |-> parked, continued |-> TRUE]
       ELSE IF is_new_node THEN [st |-> st2, continued |-> FALSE]
       ELSE [st |-> st1, continued |-> FALSE]

\* lines 320-384: one pass of "for etype in list(by_type.keys())"
RECURSIVE ForTypes(_, _, _, _, _, _, _)
ForTypes(keys, i, by_type, st, node_id, max_edges, level_no) ==
    IF i > Len(keys) THEN [by_type |-> by_type, st |-> st]
    ELSE LET n == Head(EntriesOf(by_type, keys[i]))
             by_type1 == PopFirst(by_type, keys[i])
             r == ProcessEntry(n, node_id, st, level_no)
         IN IF ~r.continued /\ r.st.new_neighbors_count >= max_edges
            THEN [by_type |-> by_type1, st |-> r.st]
            ELSE ForTypes(keys, i + 1, by_type1, r.st, node_id, max_edges, level_no)

\* lines 319-384: the round-robin selection for one frontier node
RECURSIVE RoundRobin(_, _, _, _, _)
RoundRobin(by_type, st, node_id, max_edges, level_no) ==
    IF ~BudgetLeft(st.new_neighbors_count, max_edges, by_type) THEN st
    ELSE LET r == ForTypes(TypeKeys(by_type), 1, by_type, st, node_id, max_edges, level_no)
         IN RoundRobin(r.by_type, r.st, node_id, max_edges, level_no)

\* lines 307-384: the frontier nodes, taken in the order the set yields them
RECURSIVE ForFrontier(_, _, _, _, _, _)
ForFrontier(order, i, st, a, max_edges, level_no) ==
    IF i > Len(order) THEN st
    ELSE LET all_neighbors == Get(a, order[i], <<>>)
             by_type == GroupByType(all_neighbors, 1, <<>>)
             st0 == [st EXCEPT !.new_neighbors_count = 0]
         IN ForFrontier(order, i + 1,
                        RoundRobin(by_type, st0, order[i], max_edges, level_no),
                        a, max_edges, level_no)

\* lines 391-401: the re-test of one pending association
PendingValid(pending, ns, awc) ==
    \/ ns \cap pending.ctx_ids # {}
    \/ (Len(awc) >= 1 /\ SharesContext(pending.ctx_ids, awc))

\* lines 388-424: the re-test pass over the pending associations
RECURSIVE RetestPending(_, _, _, _)
RetestPending(pend, i, st, still_pending) ==
    IF i > Len(pend) THEN [st EXCEPT !.pending_associated_with = still_pending]
    ELSE LET pending == pend[i]
             is_valid == PendingValid(pending, st.nodes, st.associated_with_contexts)
             edge_data == [from |-> pending.from, to |-> pending.to,
                           type |-> "ASSOCIATED_WITH",
                           context |-> pending.edge_info.context]
             st1 == [st EXCEPT
                       !.edge_set = @ \cup {pending.edge_key},
                       !.edges = Append(@, edge_data),
                       !.associated_with_contexts = Append(@, pending.ctx_ids)]
             st2 == [st1 EXCEPT
                       !.nodes = @ \cup {pending.neighbor_id},
                       !.node_levels = Put(@, pending.neighbor_id, pending.level),
                       !.next_level_nodes = @ \cup {pending.neighbor_id}]
         IN IF is_valid /\ pending.edge_key \notin st.edge_set
            THEN IF pending.neighbor_id \notin st.nodes
                 THEN RetestPending(pend, i + 1, st2, still_pending)
                 ELSE RetestPending(pend, i + 1, st1, still_pending)
            ELSE IF ~is_valid
                 THEN RetestPending(pend, i + 1, st, Append(still_pending, pending))
                 ELSE RetestPending(pend, i + 1, st, still_pending)

\* the orders in which iterating over a set of ids may yield its elements
Orderings(S) ==
    {o \in [1..Cardinality(S) -> S] : \A i, j \in DOMAIN o : i # j => o[i] # o[j]}

\* lines 304-425: one level of expand_graph
ExpandOneLevel(order, st, a, max_edges, level_no) ==
    LET st0 == [st EXCEPT !.next_level_nodes = {}]
        st1 == ForFrontier(order, 1, st0, a, max_edges, level_no)
    IN RetestPending(st1.pending_associated_with, 1, st1, <<>>)

(***************************************************************************)
(* main() of visualize_node.py: load the edges, build the directed view,   *)
(* expand around the center level by level, then the closure pass.         *)
(***************************************************************************)
\* Edge records the node program may meet in its edge collection.
NodeFeed ==
    { EdgeRec("S_A", "S_B", "ASSOCIATED_WITH", <<"D_X">>),
      EdgeRec("S_B", "S_C", "ASSOCIATED_WITH", <<"D_X", "D_Y">>),
      EdgeRec("S_A", "S_C", "ASSOCIATED_WITH", <<"D_Y">>),
      EdgeRec("S_A", "S_B", "ASSOCIATED_WITH", <<>>),
      EdgeRec("D_X", "S_A", "HAS_SYMPTOM", <<>>),
      EdgeRec("D_X", "S_B", "HAS_SYMPTOM", <<>>),
      EdgeRec("S_A", "D_X", "SUGGESTS", <<>>),
      EdgeRec("S_A", "D_X", "RULES_OUT", <<>>) }

NodeLoadEdge ==
    /\ pc = "load"
    /\ Len(edges) < MaxNodeEdges
    /\ \E e \in NodeFeed : edges' = Append(edges, e)
    /\ UNCHANGED <<pc, adj, args, pathVars, expandVars, first_run, locals>>

NodeBuild ==
    /\ pc = "load"
    /\ IF RaisesKeyError(edges)
       THEN /\ pc' = "crashed"
            /\ UNCHANGED adj
       ELSE /\ adj' = build_adjacency(edges, <<>>)
            /\ pc' = "built"
    /\ UNCHANGED <<edges, args, pathVars, expandVars, first_run, locals>>

\* lines 295-302: the state expand_graph starts from
BeginExpand(center_id) ==
    /\ nodes' = {center_id}
    /\ graph_edges' = <<>>
    /\ edge_set' = {}
    /\ node_levels' = Put(<<>>, center_id, 0)
    /\ associated_with_contexts' = <<>>
    /\ pending_associated_with' = <<>>
    /\ current_level_nodes' = {center_id}
    /\ lvl' = 1

StartExpand ==
    /\ pc = "built"
    /\ \E center_id \in {"S_A", "D_X"}, level \in 1..MaxLevel,
          max_edges \in 1..MaxFanout, cross \in BOOLEAN :
          /\ args' = [op |-> "expand", center_id |-> center_id, level |-> level,
                      max_edges |-> max_edges, cross |-> cross]
          /\ BeginExpand(center_id)
    /\ pc' = "expanding"
    /\ UNCHANGED <<edges, adj, pathVars, first_run, locals>>

ExpandLevel ==
    /\ pc = "expanding"
    /\ lvl <= args.level
    /\ \E order \in Orderings(current_level_nodes) :
          LET st == [nodes |-> nodes, edges |-> graph_edges, edge_set |-> edge_set,
                     node_levels |-> node_levels,
                     associated_with_contexts |-> associated_with_contexts,
                     pending_associated_with |-> pending_associated_with,
                     next_level_nodes |-> {}, new_neighbors_count |-> 0]
              fin == ExpandOneLevel(order, st, adj, args.max_edges, lvl)
          IN /\ nodes' = fin.nodes
             /\ graph_edges' = fin.edges
             /\ edge_set' = fin.edge_set
             /\ node_levels' = fin.node_levels
             /\ associated_with_contexts' = fin.associated_with_contexts
             /\ pending_associated_with' = fin.pending_associated_with
             /\ current_level_nodes' = fin.next_level_nodes
    /\ lvl' = lvl + 1
    /\ UNCHANGED <<edges, pc, adj, args, pathVars, first_run, locals>>

\* lines 427-432: the optional closure pass, then return
FinishExpand ==
    /\ pc = "expanding"
    /\ lvl > args.level
    /\ IF args.cross
       THEN LET c == find_internal_edges(nodes, edges, edge_set, <<>>)
            IN /\ edge_set' = c.edge_set
               /\ graph_edges' = graph_edges \o c.internal_edges
       ELSE UNCHANGED <<edge_set, graph_edges>>
    /\ pc' = "done"
    /\ UNCHANGED <<edges, adj, args, pathVars, nodes, node_levels,
                   associated_with_contexts, pending_associated_with,
                   current_level_nodes, lvl, first_run, locals>>

NextNode == NodeLoadEdge \/ NodeBuild \/ StartExpand \/ ExpandLevel \/ FinishExpand

SpecNode == Init /\ [][NextNode]_vars

ExpandDone == pc = "done" /\ args.op = "expand"

(***************************************************************************)
(* The same query answered by a second run of visualize_node.py on the     *)
(* same edge collection.  Iterating over the frontier set yields its ids   *)
(* in an order that depends on the string hashes of the run, so each run   *)
(* chooses its orders independently.                                       *)
(***************************************************************************)
RerunFeed ==
    { EdgeRec("S_A", "S_B", "ASSOCIATED_WITH", <<"D_X">>),
      EdgeRec("S_B", "S_C", "ASSOCIATED_WITH", <<"D_X">>),
      EdgeRec("D_X", "S_A", "HAS_SYMPTOM", <<>>),
      EdgeRec("D_X", "S_C", "HAS_SYMPTOM", <<>>),
      EdgeRec("D_X", "D_Y", "SUBTYPE_OF", <<>>) }

\* load_edges appends one record; this feed holds every record once
RerunLoadEdge ==
    /\ pc = "load"
    /\ Len(edges) < MaxRerunEdges
    /\ \E e \in RerunFeed :
          /\ \A k \in DOMAIN edges : edges[k] # e
          /\ edges' = Append(edges, e)
    /\ UNCHANGED <<pc, adj, args, pathVars, expandVars, first_run, locals>>

Rerun ==
    /\ pc = "done"
    /\ args.op = "expand"
    /\ ~first_run.ran
    /\ first_run' = [nodes |-> nodes, edges |-> graph_edges, ran |-> TRUE]
    /\ BeginExpand(args.center_id)
    /\ pc' = "expanding"
    /\ UNCHANGED <<edges, adj, args, pathVars, locals>>

NextRerun ==
    RerunLoadEdge \/ NodeBuild \/ StartExpand \/ ExpandLevel \/ FinishExpand \/ Rerun

SpecRerun == Init /\ [][NextRerun]_vars

(***************************************************************************)
(* The two query functions side by side: find_all_paths_bfs on the         *)
(* undirected view and expand_graph on the directed view of one edge       *)
(* collection.  args.op tells which of the two programs was started.       *)
(***************************************************************************)
MaxCoreEdges == 4

CoreFeed ==
    { EdgeRec("S_A", "S_C", "ASSOCIATED_WITH", <<"D_Y">>),
      EdgeRec("S_A", "S_B", "ASSOCIATED_WITH", <<"D_X", "D_Y">>),
      EdgeRec("S_A", "S_B", "LEADS_TO", <<>>),
      EdgeRec("D_X", "S_B", "HAS_SYMPTOM", <<>>),
      EdgeRec("S_C", "D_X", "RULES_OUT", <<>>) }

InitCore ==
    /\ edges = <<>>
    /\ pc = "load"
    /\ adj = <<>>
    /\ edge_lookup = <<>>
    /\ args \in {[op |-> "path"], [op |-> "node"]}
    /\ path_results = <<>>
    /\ nodes = {}
    /\ graph_edges = <<>>
    /\ edge_set = {}
    /\ node_levels = <<>>
    /\ associated_with_contexts = <<>>
    /\ pending_associated_with = <<>>
    /\ current_level_nodes = {}
    /\ lvl = 0
    /\ first_run = NoRun
    /\ locals = NoLocals

\* load_edges appends one record; this feed holds every record once
CoreLoadEdge ==
    /\ pc = "load"
    /\ Len(edges) < MaxCoreEdges
    /\ \E e \in CoreFeed :
          /\ \A k \in DOMAIN edges : edges[k] # e
          /\ edges' = Append(edges, e)
    /\ UNCHANGED <<pc, adj, args, pathVars, expandVars, first_run, locals>>

CorePathBuild == args.op = "path" /\ PathBuild

CoreFindPaths == args.op = "path" /\ FindPaths

CoreNodeBuild == args.op = "node" /\ NodeBuild

CoreStartExpand == args.op = "node" /\ StartExpand

NextCore ==
    \/ CoreLoadEdge
    \/ CorePathBuild
    \/ CoreFindPaths
    \/ CoreNodeBuild
    \/ CoreStartExpand
    \/ ExpandLevel
    \/ FinishExpand

SpecCore == InitCore /\ [][NextCore]_vars

(***************************************************************************)
(* main() of both programs from the command line on: parse_args, load_edges,*)
(* the adjacency builder, the test that the query id has edges, the query. *)
(***************************************************************************)
MaxMainEdges == 2

\* argparse choices of --paths, --max-depth, --level and --edges
PathsChoices == 1..20

DepthChoices == 1..10

LevelChoices == {1, 2, 3}

EdgesChoices == 1..10

\* the values given on the command line: the ends of each range, the
\* values next to them and one value inside
PathsGiven == {0, 1, 2, 20, 21}

DepthGiven == {0, 1, 2, 10, 11}

LevelGiven == {0, 1, 2, 3, 4}

EdgesGiven == {0, 1, 2, 10, 11}

\* the choices test with its lower end left out
InChoices_NoLower(value, choices) == \E c \in choices : value <= c

\* argparse: a value outside choices is a usage error (exit status 2)
InChoices(value, choices) == value \in choices

\* Records of all_edges.json, two of them lacking a required field.
MainFeed ==
    { EdgeRec("S_A", "S_B", "ASSOCIATED_WITH", <<"D_X">>),
      EdgeRec("D_X", "S_A", "HAS_SYMPTOM", <<>>),
      EdgeRec("S_A", "D_X", "RULES_OUT", <<>>),
      [to |-> "S_B", type |-> "HAS_SYMPTOM", context |-> <<>>, reversed |-> FALSE],
      [from |-> "D_X", to |-> "S_B", context |-> <<>>, reversed |-> FALSE] }

InitMain ==
    /\ edges = <<>>
    /\ pc = "parse"
    /\ adj = <<>>
    /\ edge_lookup = <<>>
    /\ args = NoArgs
    /\ path_results = <<>>
    /\ nodes = {}
    /\ graph_edges = <<>>
    /\ edge_set = {}
    /\ node_levels = <<>>
    /\ associated_with_contexts = <<>>
    /\ pending_associated_with = <<>>
    /\ current_level_nodes = {}
    /\ lvl = 0
    /\ first_run = NoRun
    /\ locals = NoLocals

\* path_visualize.py lines 511-520
ParsePathArgs ==
    /\ pc = "parse"
    /\ \E from_node \in {"S_A", "S_C"}, to_node \in {"S_A", "S_B"},
          paths \in PathsGiven, max_depth \in DepthGiven :
          IF InChoices(paths, PathsChoices) /\ InChoices(max_depth, DepthChoices)
          THEN /\ args' = [op |-> "path_args", start |-> from_node, end |-> to_node,
                           max_paths |-> paths, max_depth |-> max_depth]
               /\ pc' = "load"
          ELSE /\ args' = [op |-> "usage_error", given |-> <<paths, max_depth>>]
               /\ pc' = "exit"
    /\ UNCHANGED <<edges, adj, pathVars, expandVars, first_run, locals>>

\* visualize_node.py lines 579-589
ParseNodeArgs ==
    /\ pc = "parse"
    /\ \E entity \in {"S_A", "S_C"}, level \in LevelGiven,
          max_edges \in EdgesGiven, cross \in BOOLEAN :
          IF InChoices(level, LevelChoices) /\ InChoices(max_edges, EdgesChoices)
          THEN /\ args' = [op |-> "node_args", center_id |-> entity, level |-> level,
                           max_edges |-> max_edges, cross |-> cross]
               /\ pc' = "load"
          ELSE /\ args' = [op |-> "usage_error", given |-> <<level, max_edges>>]
               /\ pc' = "exit"
    /\ UNCHANGED <<edges, adj, pathVars, expandVars, first_run, locals>>

MainLoadEdge ==
    /\ pc = "load"
    /\ Len(edges) < MaxMainEdges
    /\ \E e \in MainFeed : edges' = Append(edges, e)
    /\ UNCHANGED <<pc, adj, args, pathVars, expandVars, first_run, locals>>

MainPathBuild == args.op = "path_args" /\ PathBuild

MainNodeBuild == args.op = "node_args" /\ NodeBuild

\* path_visualize.py lines 534-544
MainFindPaths ==
    /\ pc = "built"
    /\ args.op = "path_args"
    /\ IF args.start \notin DOMAIN adj \/ args.end \notin DOMAIN adj
       THEN /\ args' = [args EXCEPT !.op = "not_found"]
            /\ UNCHANGED path_results
       ELSE /\ args' = [args EXCEPT !.op = "find_paths"]
            /\ path_results' =
                  find_all_paths_bfs(args.start, args.end, adj, edge_lookup,
                                     args.max_paths, args.max_depth)
    /\ pc' = "done"
    /\ UNCHANGED <<edges, adj, edge_lookup, expandVars, first_run, locals>>

\* visualize_node.py lines 607-615
MainStartExpand ==
    /\ pc = "built"
    /\ args.op = "node_args"
    /\ IF args.center_id \notin DOMAIN adj
       THEN /\ args' = [args EXCEPT !.op = "not_found"]
            /\ pc' = "done"
            /\ UNCHANGED expandVars
       ELSE /\ args' = [args EXCEPT !.op = "expand"]
            /\ BeginExpand(args.center_id)
            /\ pc' = "expanding"
    /\ UNCHANGED <<edges, adj, pathVars, first_run, locals>>

NextMain ==
    \/ ParsePathArgs
    \/ ParseNodeArgs
    \/ MainLoadEdge
    \/ MainPathBuild
    \/ MainNodeBuild
    \/ MainFindPaths
    \/ MainStartExpand
    \/ ExpandLevel
    \/ FinishExpand

SpecMain == InitMain /\ [][NextMain]_vars

(***************************************************************************)
(* The two query functions with their loops followed step by step: one     *)
(* step per iteration of the search loop of find_all_paths_bfs, one step   *)
(* per adjacency entry consumed by the round-robin selection of            *)
(* expand_graph.                                                            *)
(***************************************************************************)
MaxStepEdges == 3

StepFeed ==
    { EdgeRec("D_X", "S_A", "HAS_SYMPTOM", <<>>),
      EdgeRec("D_X", "S_B", "HAS_SYMPTOM", <<>>),
      EdgeRec("D_X", "D_Y", "SUBTYPE_OF", <<>>),
      EdgeRec("S_A", "S_B", "ASSOCIATED_WITH", <<"D_X">>),
      EdgeRec("S_A", "D_X", "RULES_OUT", <<>>) }

\* adj[key] for adj.get(key, []): the default-creating map inserts the key
AfterGet_Subscript(map, key) ==
    IF key \in DOMAIN map THEN map ELSE Put(map, key, <<>>)

\* adj.get(key, []) (path_visualize.py line 224, visualize_node.py line 309):
\* the mapping as the call leaves it
AfterGet(map, key) == map

\* the loop variables of expand_graph before a level starts; consumed,
\* found_at and enriched note, for the frontier node at hand, the entries
\* popped so far, the pop that found the last new node and the number of
\* edges recorded towards nodes that were already known
LevelLocals ==
    [phase |-> "level", order |-> <<>>, i |-> 0, all_neighbors |-> <<>>,
     by_type |-> <<>>, keys |-> <<>>, k |-> 0, new_neighbors_count |-> 0,
     next_level_nodes |-> {}, consumed |-> <<>>, found_at |-> 0, enriched |-> 0]

\* the expansion state as the operators of one entry and of the re-test take it
ExpandState ==
    [nodes |-> nodes, edges |-> graph_edges, edge_set |-> edge_set,
     node_levels |-> node_levels,
     associated_with_contexts |-> associated_with_contexts,
     pending_associated_with |-> pending_associated_with,
     next_level_nodes |-> locals.next_level_nodes,
     new_neighbors_count |-> locals.new_neighbors_count]

StepLoadEdge ==
    /\ pc = "load"
    /\ Len(edges) < MaxStepEdges
    /\ \E e \in StepFeed :
          /\ \A k \in DOMAIN edges : edges[k] # e
          /\ edges' = Append(edges, e)
    /\ UNCHANGED <<pc, adj, args, pathVars, expandVars, first_run, locals>>

\* lines 205-214: the early return, or the queue seeded with the start
BeginSearch ==
    /\ pc = "built"
    /\ args.op = "path"
    /\ \E start \in {"S_A"}, end \in {"S_A", "S_B", "D_Y"},
          max_paths \in 1..MaxPaths, max_depth \in 1..MaxDepth :
          /\ args' = [op |-> "find_paths", start |-> start, end |-> end,
                      max_paths |-> max_paths, max_depth |-> max_depth]
          /\ IF StartIsEnd(start, end)
             THEN /\ path_results' = <<[path |-> <<start>>, common_ctx |-> {}]>>
                  /\ pc' = "done"
                  /\ UNCHANGED locals
             ELSE /\ locals' = [phase |-> "search",
                                queue |-> <<[current |-> start, path |-> <<start>>,
                                             visited |-> {start}]>>,
                                found_paths |-> <<>>,
                                seen_paths |-> {},
                                first_hop_count |-> <<>>]
                  /\ pc' = "searching"
                  /\ UNCHANGED path_results
    /\ UNCHANGED <<edges, adj, edge_lookup, expandVars, first_run>>

\* lines 216-253: one iteration of the search loop
SearchStep ==
    /\ pc = "searching"
    /\ LoopContinues(locals.queue, locals.found_paths, args.max_paths)
    /\ LET cur == Head(locals.queue)
           st0 == [locals EXCEPT !.queue = Tail(@)]
           current_depth == Len(cur.path) - 1
           neighbors == Sorted(Get(adj, cur.current, <<>>))
       IN IF DepthReached(current_depth, args.max_depth)
          THEN /\ locals' = st0
               /\ adj' = adj
          ELSE /\ locals' = ForNeighbors(neighbors, 1, cur, st0, args.end, edge_lookup)
               /\ adj' = AfterGet(adj, cur.current)
    /\ UNCHANGED <<edges, pc, args, pathVars, expandVars, first_run>>

\* lines 255-262: the loop is left; sort, truncate, return
SearchEnd ==
    /\ pc = "searching"
    /\ ~LoopContinues(locals.queue, locals.found_paths, args.max_paths)
    /\ path_results' =
          Truncate(SortPaths(locals.found_paths, Len(locals.found_paths),
                             locals.first_hop_count),
                   args.max_paths)
    /\ locals' = NoLocals
    /\ pc' = "done"
    /\ UNCHANGED <<edges, adj, args, edge_lookup, expandVars, first_run>>

\* lines 295-302
StepStartExpand ==
    /\ pc = "built"
    /\ args.op = "node"
    /\ \E center_id \in {"D_X", "S_A"}, level \in 1..MaxLevel,
          max_edges \in 1..MaxFanout, cross \in BOOLEAN :
          /\ args' = [op |-> "expand", center_id |-> center_id, level |-> level,
                      max_edges |-> max_edges, cross |-> cross]
          /\ BeginExpand(center_id)
    /\ locals' = LevelLocals
    /\ pc' = "expanding"
    /\ UNCHANGED <<edges, adj, pathVars, first_run>>

\* lines 304-307: a level starts; the frontier set will be iterated in some order
LevelBegin ==
    /\ pc = "expanding"
    /\ locals.phase = "level"
    /\ lvl <= args.level
    /\ \E order \in Orderings(current_level_nodes) :
          locals' = [LevelLocals EXCEPT !.phase = "nodes", !.order = order]
    /\ UNCHANGED <<edges, pc, adj, args, pathVars, expandVars, first_run>>

\* lines 307-316: the next frontier node, its adjacency entries grouped by type
NodeBegin ==
    /\ pc = "expanding"
    /\ locals.phase = "nodes"
    /\ locals.i < Len(locals.order)
    /\ LET node_id == locals.order[locals.i + 1]
           all_neighbors == Get(adj, node_id, <<>>)
       IN /\ locals' = [locals EXCEPT !.phase = "while",
                                      !.i = @ + 1,
                                      !.all_neighbors = all_neighbors,
                                      !.by_type = GroupByType(all_neighbors, 1, <<>>),
                                      !.keys = <<>>,
                                      !.k = 0,
                                      !.new_neighbors_count = 0,
                                      !.consumed = <<>>,
                                      !.found_at = 0,
                                      !.enriched = 0]
          /\ adj' = AfterGet(adj, node_id)
    /\ UNCHANGED <<edges, pc, args, pathVars, expandVars, first_run>>

\* lines 319-320: the while test; a new pass takes a snapshot of the type keys
WhileTest ==
    /\ pc = "expanding"
    /\ locals.phase = "while"
    /\ IF BudgetLeft(locals.new_neighbors_count, args.max_edges, locals.by_type)
       THEN locals' = [locals EXCEPT !.phase = "for",
                                    !.keys = TypeKeys(locals.by_type),
                                    !.k = 1]
       ELSE locals' = [locals EXCEPT !.phase = "nodes"]
    /\ UNCHANGED <<edges, pc, adj, args, pathVars, expandVars, first_run>>

\* lines 320-384: one iteration of the for loop over the type keys
ForStep ==
    /\ pc = "expanding"
    /\ locals.phase = "for"
    /\ IF locals.k > Len(locals.keys)
       THEN /\ locals' = [locals EXCEPT !.phase = "while"]
            /\ UNCHANGED expandVars
       ELSE LET etype == locals.keys[locals.k]
                n == Head(EntriesOf(locals.by_type, etype))
                r == ProcessEntry(n, locals.order[locals.i], ExpandState, lvl)
                found == r.st.new_neighbors_count > locals.new_neighbors_count
                recorded == Len(r.st.edges) > Len(graph_edges)
                break == ~r.continued /\ r.st.new_neighbors_count >= args.max_edges
            IN /\ nodes' = r.st.nodes
               /\ graph_edges' = r.st.edges
               /\ edge_set' = r.st.edge_set
               /\ node_levels' = r.st.node_levels
               /\ associated_with_contexts' = r.st.associated_with_contexts
               /\ pending_associated_with' = r.st.pending_associated_with
               /\ UNCHANGED <<current_level_nodes, lvl>>
               /\ locals' = [locals EXCEPT
                               !.by_type = PopFirst(locals.by_type, etype),
                               !.consumed = Append(@, n),
                               !.found_at = IF found THEN Len(locals.consumed) + 1 ELSE @,
                               !.enriched = IF recorded /\ ~found THEN @ + 1 ELSE @,
                               !.new_neighbors_count = r.st.new_neighbors_count,
                               !.next_level_nodes = r.st.next_level_nodes,
                               !.phase = IF break THEN "while" ELSE @,
                               !.k = IF break THEN @ ELSE @ + 1]
    /\ UNCHANGED <<edges, pc, adj, args, pathVars, first_run>>

\* lines 386-425: the re-test pass, then the next level
LevelEnd ==
    /\ pc = "expanding"
    /\ locals.phase = "nodes"
    /\ locals.i = Len(locals.order)
    /\ LET fin == RetestPending(pending_associated_with, 1, ExpandState, <<>>)
       IN /\ nodes' = fin.nodes
          /\ graph_edges' = fin.edges
          /\ edge_set' = fin.edge_set
          /\ node_levels' = fin.node_levels
          /\ associated_with_contexts' = fin.associated_with_contexts
          /\ pending_associated_with' = fin.pending_associated_with
          /\ current_level_nodes' = fin.next_level_nodes
    /\ lvl' = lvl + 1
    /\ locals' = LevelLocals
    /\ UNCHANGED <<edges, pc, adj, args, pathVars, first_run>>

StepFinishExpand == locals.phase = "level" /\ FinishExpand

NextSteps ==
    \/ StepLoadEdge
    \/ CorePathBuild
    \/ BeginSearch
    \/ SearchStep
    \/ SearchEnd
    \/ CoreNodeBuild
    \/ StepStartExpand
    \/ LevelBegin
    \/ NodeBegin
    \/ WhileTest
    \/ ForStep
    \/ LevelEnd
    \/ StepFinishExpand

\* the program is single-threaded and synchronous: a step that can be taken
\* is taken
SpecSteps == InitCore /\ [][NextSteps]_vars /\ WF_vars(NextSteps)

(***************************************************************************)
(* expand_graph step by step on edge collections of up to five records, in *)
(* which a frontier node has edges to known nodes and to new ones.         *)
(***************************************************************************)
MaxBudgetEdges == 5

BudgetFeed ==
    { EdgeRec("D_X", "S_A", "HAS_SYMPTOM", <<>>),
      EdgeRec("D_X", "S_B", "HAS_SYMPTOM", <<>>),
      EdgeRec("S_A", "S_B", "LEADS_TO", <<>>),
      EdgeRec("S_A", "D_Y", "SUGGESTS", <<>>),
      EdgeRec("S_A", "S_C", "LEADS_TO", <<>>) }

InitBudget == InitCore /\ args.op = "node"

BudgetLoadEdge ==
    /\ pc = "load"
    /\ Len(edges) < MaxBudgetEdges
    /\ \E e \in BudgetFeed :
          /\ \A k \in DOMAIN edges : edges[k] # e
          /\ edges' = Append(edges, e)
    /\ UNCHANGED <<pc, adj, args, pathVars, expandVars, first_run, locals>>

NextBudget ==
    \/ BudgetLoadEdge
    \/ CoreNodeBuild
    \/ StepStartExpand
    \/ LevelBegin
    \/ NodeBegin
    \/ WhileTest
    \/ ForStep
    \/ LevelEnd
    \/ StepFinishExpand

SpecBudget == InitBudget /\ [][NextBudget]_vars

(***************************************************************************)
(* find_all_paths_bfs on edge collections of up to five records in which   *)
(* several paths of equal length lead to the end, followed by the same     *)
(* query asked in the other direction.                                     *)
(***************************************************************************)
MaxRankEdges == 5

MaxRankDepth == 3

RankFeed ==
    { EdgeRec("S_A", "S_C", "ASSOCIATED_WITH", <<"D_X">>),
      EdgeRec("S_C", "S_B", "ASSOCIATED_WITH", <<"D_Y">>),
      EdgeRec("S_A", "S_B", "SUGGESTS", <<>>),
      EdgeRec("D_X", "S_B", "HAS_SYMPTOM", <<>>),
      EdgeRec("D_X", "S_C", "HAS_SYMPTOM", <<>>),
      EdgeRec("S_B", "S_A", "ASSOCIATED_WITH", <<"D_Y">>) }

\* load_edges appends one record; this feed holds every record once
RankLoadEdge ==
    /\ pc = "load"
    /\ Len(edges) < MaxRankEdges
    /\ \E e \in RankFeed :
          /\ \A k \in DOMAIN edges : edges[k] # e
          /\ edges' = Append(edges, e)
    /\ UNCHANGED <<pc, adj, args, pathVars, expandVars, first_run, locals>>

RankFindPaths ==
    /\ pc = "built"
    /\ \E start \in {"S_A"}, end \in {"D_X", "S_B"},
          max_paths \in 1..MaxPaths, max_depth \in 1..MaxRankDepth :
          /\ args' = [op |-> "find_paths", start |-> start, end |-> end,
                      max_paths |-> max_paths, max_depth |-> max_depth]
          /\ path_results' =
                find_all_paths_bfs(start, end, adj, edge_lookup, max_paths, max_depth)
    /\ pc' = "done"
    /\ UNCHANGED <<edges, adj, edge_lookup, expandVars, first_run, locals>>

\* the query asked again from end to start on the same view
ReverseFindPaths ==
    /\ pc = "done"
    /\ args.op = "find_paths"
    /\ ~first_run.ran
    /\ first_run' = [paths |-> path_results, ran |-> TRUE]
    /\ args' = [args EXCEPT !.start = args.end, !.end = args.start]
    /\ path_results' =
          find_all_paths_bfs(args.end, args.start, adj, edge_lookup,
                             args.max_paths, args.max_depth)
    /\ UNCHANGED <<edges, pc, adj, edge_lookup, expandVars, locals>>

NextRank == RankLoadEdge \/ PathBuild \/ RankFindPaths \/ ReverseFindPaths

SpecRank == Init /\ [][NextRank]_vars

(***************************************************************************)
(* update_data.py: merge_edges merges the edges extracted anew into the    *)
(* edges of all_edges.json.  edges is existing_edges, args.new_edges the   *)
(* list returned by load_v5_edges, locals holds what merge_edges returns.  *)
(* Context entries are id strings.                                         *)
(***************************************************************************)
MaxMergeEdges == 2

\* min(from_id, to_id) and max(from_id, to_id) on id strings
IdIndex(n) == CHOOSE i \in DOMAIN NodeOrder : NodeOrder[i] = n

MinId(x, y) == IF IdIndex(x) <= IdIndex(y) THEN x ELSE y

MaxId(x, y) == IF IdIndex(x) <= IdIndex(y) THEN y ELSE x

\* lines 282-287
normalize_edge_key(from_id, to_id, edge_type) ==
    IF edge_type = "ASSOCIATED_WITH"
    THEN <<MinId(from_id, to_id), MaxId(from_id, to_id), edge_type>>
    ELSE <<from_id, to_id, edge_type>>

EdgeKey(edge) == normalize_edge_key(edge.from, edge.to, edge.type)

\* lines 290-307: the two lists concatenated, later repetitions dropped
RECURSIVE Dedup(_, _, _)
Dedup(ctxs, i, all_contexts) ==
    IF i > Len(ctxs) THEN all_contexts
    ELSE IF \E j \in DOMAIN all_contexts : all_contexts[j] = ctxs[i]
         THEN Dedup(ctxs, i + 1, all_contexts)
         ELSE Dedup(ctxs, i + 1, Append(all_contexts, ctxs[i]))

merge_contexts(existing_contexts, new_contexts) ==
    Dedup(existing_contexts \o new_contexts, 1, <<>>)

\* line 346: the merged context replaces the existing one only when longer
ContextGrew(merged_ctx, existing_ctx) == Len(merged_ctx) > Len(existing_ctx)

\* lines 318-320: key -> index of the last existing edge with that key
RECURSIVE IndexByKey(_, _, _)
IndexByKey(existing_edges, i, lookup) ==
    IF i > Len(existing_edges) THEN lookup
    ELSE IndexByKey(existing_edges, i + 1, Put(lookup, EdgeKey(existing_edges[i]), i))

\* lines 331-359: the loop over the new edges.  A record without context
\* has context <<>>, so "context" is the one key lines 351-353 can add.
RECURSIVE MergeLoop(_, _, _, _, _)
MergeLoop(new_edges, i, merged, lookup, added) ==
    IF i > Len(new_edges) THEN [merged |-> merged, added |-> added]
    ELSE LET edge == new_edges[i]
             edge_key == EdgeKey(edge)
             existing_idx == lookup[edge_key]
             existing_edge == merged[existing_idx]
             merged_ctx == merge_contexts(existing_edge.context, edge.context)
         IN IF edge_key \in DOMAIN lookup
            THEN IF edge.type = "ASSOCIATED_WITH"
                 THEN IF ContextGrew(merged_ctx, existing_edge.context)
                      THEN MergeLoop(new_edges, i + 1,
                                     [merged EXCEPT ![existing_idx].context = merged_ctx],
                                     lookup, added)
                      ELSE MergeLoop(new_edges, i + 1, merged, lookup, added)
                 ELSE IF existing_edge.context = <<>>
                      THEN MergeLoop(new_edges, i + 1,
                                     [merged EXCEPT ![existing_idx].context = edge.context],
                                     lookup, added)
                      ELSE MergeLoop(new_edges, i + 1, merged, lookup, added)
            ELSE MergeLoop(new_edges, i + 1, Append(merged, edge),
                           Put(lookup, edge_key, Len(merged) + 1), added + 1)

\* lines 310-362
merge_edges(existing_edges, new_edges) ==
    MergeLoop(new_edges, 1, existing_edges, IndexByKey(existing_edges, 1, <<>>), 0)

\* Records the two edge files may hold.
MergeFeed ==
    { EdgeRec("S_A", "S_B", "ASSOCIATED_WITH", <<"D_X">>),
      EdgeRec("S_B", "S_A", "ASSOCIATED_WITH", <<"D_Y">>),
      EdgeRec("S_A", "S_B", "ASSOCIATED_WITH", <<"D_X", "D_X">>),
      EdgeRec("S_A", "S_B", "ASSOCIATED_WITH", <<>>),
      EdgeRec("S_A", "S_B", "SUGGESTS", <<>>),
      EdgeRec("S_A", "S_C", "ASSOCIATED_WITH", <<"D_Y">>) }

InitMerge ==
    /\ edges = <<>>
    /\ pc = "load"
    /\ adj = <<>>
    /\ edge_lookup = <<>>
    /\ args = [op |-> "merge", new_edges |-> <<>>]
    /\ path_results = <<>>
    /\ nodes = {}
    /\ graph_edges = <<>>
    /\ edge_set = {}
    /\ node_levels = <<>>
    /\ associated_with_contexts = <<>>
    /\ pending_associated_with = <<>>
    /\ current_level_nodes = {}
    /\ lvl = 0
    /\ first_run = NoRun
    /\ locals = NoLocals

\* load_existing_edges (lines 83-115) keeps every record of the file
LoadExistingEdge ==
    /\ pc = "load"
    /\ Len(edges) < MaxMergeEdges
    /\ \E e \in MergeFeed : edges' = Append(edges, e)
    /\ UNCHANGED <<pc, adj, args, pathVars, expandVars, first_run, locals>>

\* load_v5_edges (lines 180-244) skips a record whose (from, to, type) it
\* has already taken
LoadNewEdge ==
    /\ pc = "load"
    /\ Len(args.new_edges) < MaxMergeEdges
    /\ \E e \in MergeFeed :
          /\ \A k \in DOMAIN args.new_edges :
                <<args.new_edges[k].from, args.new_edges[k].to, args.new_edges[k].type>>
                  # <<e.from, e.to, e.type>>
          /\ args' = [args EXCEPT !.new_edges = Append(@, e)]
    /\ UNCHANGED <<edges, pc, adj, pathVars, expandVars, first_run, locals>>

\* line 487 of main: merged starts as a shallow copy of existing_edges, so
\* line 347 changes the records of existing_edges too; locals.existing
\* keeps the list as it was when merge_edges was called
MergeEdges ==
    /\ pc = "load"
    /\ LET r == merge_edges(edges, args.new_edges)
       IN /\ locals' = [phase |-> "merged", existing |-> edges,
                        merged |-> r.merged, added |-> r.added]
          /\ edges' = SubSeq(r.merged, 1, Len(edges))
    /\ pc' = "done"
    /\ UNCHANGED <<adj, args, pathVars, expandVars, first_run>>

NextMerge == LoadExistingEdge \/ LoadNewEdge \/ MergeEdges

SpecMerge == InitMerge /\ [][NextMerge]_vars

(***************************************************************************)
(* Properties of the Path Enumerator                                       *)
(***************************************************************************)
ResultIdx == DOMAIN path_results

\* the records of the edge collection that join n1 and n2, in either direction
Joining(n1, n2) ==
    {k \in DOMAIN edges : {edges[k].from, edges[k].to} = {n1, n2}}

Hops(path) == 1..(Len(path) - 1)

\* the context-id sets of all ASSOCIATED_WITH records that join a consecutive
\* Symptom-Symptom pair of the path
SSContextSets(path) ==
    { get_context_ids(edges[k].context) :
        k \in { k \in DOMAIN edges :
                  /\ edges[k].type = "ASSOCIATED_WITH"
                  /\ \E i \in Hops(path) :
                        /\ IsSymptom(path[i]) /\ IsSymptom(path[i + 1])
                        /\ k \in Joining(path[i], path[i + 1]) } }

InterAll(S) == {x \in UNION S : \A c \in S : x \in c}

\* C1: every returned (path, shared_context) has shared_context equal to the
\* intersection of the context sets of all ASSOCIATED_WITH edges of the edge
\* collection joining consecutive Symptom-Symptom pairs of the path, and that
\* intersection is non-empty unless the path has no such pair.
C1_ContextSharing ==
    PathDone =>
        \A r \in ResultIdx :
            LET cs == SSContextSets(path_results[r].path)
            IN IF cs = {} THEN path_results[r].common_ctx = {}
               ELSE /\ InterAll(cs) # {}
                    /\ path_results[r].common_ctx = InterAll(cs)

\* C2: every returned path has at most max_depth hops.
C2_DepthBound ==
    PathDone =>
        \A r \in ResultIdx : Len(path_results[r].path) - 1 <= args.max_depth

C2_Witness ==
    /\ PathDone
    /\ args.max_depth >= 2
    /\ \E r \in ResultIdx : Len(path_results[r].path) - 1 = args.max_depth

\* C3: no node id occurs twice in a returned path.
C3_NoRepeatedNode ==
    PathDone =>
        \A r \in ResultIdx :
            \A i, j \in DOMAIN path_results[r].path :
                i # j => path_results[r].path[i] # path_results[r].path[j]

C3_Witness ==
    /\ PathDone
    /\ \E k \in DOMAIN edges : edges[k].from = edges[k].to /\ edges[k].from = args.start
    /\ \E k1, k2 \in DOMAIN edges : k1 # k2 /\ edges[k1] = edges[k2]
    /\ \E r \in ResultIdx : Len(path_results[r].path) >= 2

C8_Ordering ==
    PathDone =>
        \A r \in ResultIdx :
            r + 1 \in ResultIdx =>
                Len(path_results[r].path) <= Len(path_results[r + 1].path)

C8_Witness ==
    /\ PathDone
    /\ \E r \in ResultIdx :
          r + 1 \in ResultIdx /\ Len(path_results[r].path) < Len(path_results[r + 1].path)

\* the simple paths from start to end of at most max_depth hops along records
\* of the edge collection that pass context validation
ValidSimplePaths(start, end, max_depth) ==
    { p \in UNION { [1..n -> NodeIds] : n \in 1..(max_depth + 1) } :
        /\ p[1] = start
        /\ p[Len(p)] = end
        /\ \A i, j \in DOMAIN p : i # j => p[i] # p[j]
        /\ \A i \in Hops(p) : Joining(p[i], p[i + 1]) # {}
        /\ validate_ss_contexts(p, edge_lookup).is_valid }

Min(a, b) == IF a < b THEN a ELSE b

\* C9: find_paths returns exactly min(max_paths, N) pairwise distinct paths,
\* each a valid simple path from start to end within max_depth, where N is
\* the number of such paths.
C9_ExactCount ==
    PathDone =>
        LET V == ValidSimplePaths(args.start, args.end, args.max_depth)
        IN /\ Len(path_results) = Min(args.max_paths, Cardinality(V))
           /\ \A r \in ResultIdx : path_results[r].path \in V
           /\ \A r1, r2 \in ResultIdx :
                 r1 # r2 => path_results[r1].path # path_results[r2].path

\* more valid simple paths exist than were asked for, and the list is truncated
C9_Witness ==
    /\ PathDone
    /\ args.start # args.end
    /\ Len(path_results) = args.max_paths
    /\ Cardinality(ValidSimplePaths(args.start, args.end, args.max_depth)) > args.max_paths

\* C10: find_paths(start, start, ...) returns exactly the one-node path with
\* an empty shared-context set.
C10_TrivialPath ==
    (PathDone /\ args.start = args.end) =>
        path_results = <<[path |-> <<args.start>>, common_ctx |-> {}]>>

C10_Witness ==
    /\ PathDone
    /\ args.start = args.end
    /\ args.start \in DOMAIN adj
    /\ args.max_paths > 1

\* C11: no returned path has a consecutive pair, of any node types, whose
\* connecting edges in the edge collection are all ASSOCIATED_WITH edges
\* without context: such a hop can only have been made over a context-less
\* association.
C11_NoContextlessHop ==
    PathDone =>
        \A r \in ResultIdx :
            \A i \in Hops(path_results[r].path) :
                \E k \in Joining(path_results[r].path[i], path_results[r].path[i + 1]) :
                    ~(edges[k].type = "ASSOCIATED_WITH" /\ get_context_ids(edges[k].context) = {})

\* C23: after the undirected view is built, for every record e of the edge
\* collection the lookup entry of (e.from, e.to) is an original, non-reversed
\* record from e.from to e.to, and the entry of (e.to, e.from) is a record
\* tagged reversed.
C23_LookupOriented ==
    (pc \in {"built", "done"} /\ edge_lookup # <<>>) =>
        \A k \in DOMAIN edges :
            LET e == edges[k]
            IN /\ <<e.from, e.to>> \in DOMAIN edge_lookup
               /\ ~edge_lookup[<<e.from, e.to>>].reversed
               /\ edge_lookup[<<e.from, e.to>>].from = e.from
               /\ edge_lookup[<<e.from, e.to>>].to = e.to
               /\ <<e.to, e.from>> \in DOMAIN edge_lookup
               /\ edge_lookup[<<e.to, e.from>>].reversed

\* the state in which the search loop of the answered query was left
SearchLeft ==
    SearchLoop([queue |-> <<[current |-> args.start, path |-> <<args.start>>,
                             visited |-> {args.start}]>>,
                found_paths |-> <<>>, seen_paths |-> {}, first_hop_count |-> <<>>],
               args.end, adj, edge_lookup, args.max_paths, args.max_depth)

\* the number of collected candidates whose second node is that of path p
FirstHopFrequency(p) ==
    LET found == SearchLeft.found_paths
    IN Cardinality({i \in DOMAIN found : found[i].path[2] = p[2]})

\* C24: among returned paths of the same hop count, paths come in
\* non-decreasing order of first-hop frequency, the number of collected
\* valid candidates (before truncation) that share the path's second node.
C24_DiversityOrder ==
    (PathDone /\ args.start # args.end) =>
        \A r1, r2 \in ResultIdx :
            (r1 < r2 /\ Len(path_results[r1].path) = Len(path_results[r2].path)) =>
                FirstHopFrequency(path_results[r1].path)
                    <= FirstHopFrequency(path_results[r2].path)

\* two returned paths of equal length, the second with the more frequent
\* first hop although the search met that first hop earlier
C24_Witness ==
    /\ PathDone
    /\ Len(path_results) >= 2
    /\ Len(path_results[1].path) = Len(path_results[2].path)
    /\ FirstHopFrequency(path_results[1].path) < FirstHopFrequency(path_results[2].path)
    /\ SearchLeft.found_paths[1].path = path_results[2].path

\* C25: whenever a valid simple path from start to end within max_depth
\* exists, a path is returned and the first returned path has the least hop
\* count of all valid simple paths, for every max_paths: stopping at
\* 3 x max_paths candidates never loses a shorter path to a longer one.
C25_ShortestFirst ==
    (PathDone /\ args.start # args.end) =>
        LET V == ValidSimplePaths(args.start, args.end, args.max_depth)
        IN V # {} =>
              /\ path_results # <<>>
              /\ path_results[1].path \in V
              /\ \A p \in V : Len(path_results[1].path) <= Len(p)

\* the search loop was left at 3 x max_paths candidates of different
\* lengths with partial paths still queued
C25_Witness ==
    /\ PathDone
    /\ args.start # args.end
    /\ Len(SearchLeft.found_paths) >= 3 * args.max_paths
    /\ SearchLeft.queue # <<>>
    /\ \E i, j \in DOMAIN SearchLeft.found_paths :
          Len(SearchLeft.found_paths[i].path) < Len(SearchLeft.found_paths[j].path)

Reverse(p) == [i \in DOMAIN p |-> p[Len(p) + 1 - i]]

\* C28: when the number of valid simple paths between a and b within
\* max_depth is at most max_paths, the results of find_paths(b, a) are
\* exactly the results of find_paths(a, b) with each path reversed and the
\* same shared-context set.
C28_Symmetric ==
    (PathDone /\ first_run.ran
        /\ Cardinality(ValidSimplePaths(args.start, args.end, args.max_depth))
              <= args.max_paths) =>
        { <<path_results[r].path, path_results[r].common_ctx>> : r \in ResultIdx }
          = { <<Reverse(first_run.paths[r].path), first_run.paths[r].common_ctx>> :
                r \in DOMAIN first_run.paths }

\* both directions returned two paths, one of them over an association
\* with a shared context, on a collection storing edges against the
\* direction of the first query
C28_Witness ==
    /\ PathDone
    /\ first_run.ran
    /\ Len(path_results) = 2
    /\ Len(first_run.paths) = 2
    /\ Cardinality(ValidSimplePaths(args.start, args.end, args.max_depth)) = 2
    /\ \E r \in ResultIdx : path_results[r].common_ctx # {}
    /\ \E k \in DOMAIN edges : edges[k].from = args.start

(***************************************************************************)
(* Properties of both query functions                                      *)
(***************************************************************************)
\* no record of the edge collection has n as an endpoint
NoIncidentEdge(n) == \A k \in DOMAIN edges : n \notin {edges[k].from, edges[k].to}

\* C13 as stated: whenever start or end has no incident edge find_paths
\* returns the empty list, and for a center with no incident edge expand
\* returns no edge and no node other than the center.
C13_IsolatedEmpty ==
    /\ (PathDone /\ (NoIncidentEdge(args.start) \/ NoIncidentEdge(args.end))) =>
            path_results = <<>>
    /\ (ExpandDone /\ NoIncidentEdge(args.center_id)) =>
            (graph_edges = <<>> /\ nodes \subseteq {args.center_id})

\* C13 amended: the same for start different from end; with start = end
\* find_paths returns the one-node path also when start has no incident edge.
C13_IsolatedDistinct ==
    /\ (PathDone /\ args.start # args.end
            /\ (NoIncidentEdge(args.start) \/ NoIncidentEdge(args.end))) =>
            path_results = <<>>
    /\ (PathDone /\ args.start = args.end /\ NoIncidentEdge(args.start)) =>
            path_results = <<[path |-> <<args.start>>, common_ctx |-> {}]>>
    /\ (ExpandDone /\ NoIncidentEdge(args.center_id)) =>
            (graph_edges = <<>> /\ nodes \subseteq {args.center_id})

\* the search ran from a connected start towards an end without edges
C13_Witness ==
    /\ PathDone
    /\ args.start # args.end
    /\ ~NoIncidentEdge(args.start)
    /\ NoIncidentEdge(args.end)
    /\ path_results = <<>>

\* nothing of a traversal exists: no edge was loaded, no adjacency view
\* built, no search or expansion state created
NoTraversalState ==
    /\ edges = <<>>
    /\ adj = <<>>
    /\ edge_lookup = <<>>
    /\ path_results = <<>>
    /\ nodes = {}
    /\ graph_edges = <<>>
    /\ edge_set = {}
    /\ current_level_nodes = {}
    /\ pending_associated_with = <<>>

\* C14: a query with max_paths outside [1,20], max_depth outside [1,10],
\* level outside [1,3] or max_fanout outside [1,10] is rejected before any
\* traversal step: a rejected query has no traversal state, and every query
\* that got past the command line has its parameters in range.
C14_RangeChecked ==
    /\ args.op = "usage_error" => (pc = "exit" /\ NoTraversalState)
    /\ pc = "parse" => NoTraversalState
    /\ args.op \in {"path_args", "find_paths"} =>
          (args.max_paths \in 1..20 /\ args.max_depth \in 1..10)
    /\ args.op \in {"node_args", "expand"} =>
          (args.level \in 1..3 /\ args.max_edges \in 1..10)

\* a query just above a range was rejected
C14_Witness ==
    /\ pc = "exit"
    /\ args.op = "usage_error"
    /\ \/ args.given[1] \in {4, 21}
       \/ args.given[2] = 11

\* the well-formed records of the edge collection
WellFormed(edge) == {"from", "to", "type"} \subseteq DOMAIN edge

\* C15: when the edge collection has a record lacking from, to or type, the
\* adjacency builders skip the record and complete with the adjacency of
\* the remaining records.
C15_MalformedSkipped ==
    (pc \notin {"parse", "exit", "load"} /\ \E k \in DOMAIN edges : ~WellFormed(edges[k])) =>
        /\ pc # "crashed"
        /\ \/ adj = build_adjacency(SelectSeq(edges, WellFormed), <<>>)
           \/ adj = build_adjacency_undirected(SelectSeq(edges, WellFormed), <<>>, <<>>).adj

\* C16: for every edge collection and all parameters in range, find_paths
\* and expand terminate: a search or an expansion that has started reaches
\* its return.
C16_Terminates == (pc \in {"searching", "expanding"}) ~> (pc = "done")

\* an expansion of two levels that admitted edges has returned
C16_Witness ==
    /\ pc = "done"
    /\ args.op = "expand"
    /\ lvl > 2
    /\ Len(graph_edges) >= 2

\* C17: neither find_paths nor expand changes the graph data it is given:
\* from the call to the return the edge collection, the adjacency map (its
\* key set included) and the edge lookup stay as they were.
C17_GraphDataUnchanged ==
    [][(pc \in {"built", "searching", "expanding"}) =>
          (edges' = edges /\ adj' = adj /\ edge_lookup' = edge_lookup)]_vars

\* a query about an id that is no key of the adjacency map has returned
C17_Witness ==
    /\ pc = "done"
    /\ edges # <<>>
    /\ \/ (args.op = "find_paths" /\ args.start # args.end /\ args.start \notin DOMAIN adj)
       \/ (args.op = "expand" /\ args.center_id \notin DOMAIN adj)

(***************************************************************************)
(* Properties of the Ego Expander                                          *)
(***************************************************************************)
\* C5: without closure the returned edge list has no RULES_OUT and no
\* PERTINENT_NEGATIVE edge.
C5_NoExcludedEdge ==
    (ExpandDone /\ ~args.cross) =>
        \A i \in DOMAIN graph_edges :
            graph_edges[i].type \notin EXCLUDED_EDGE_TYPES_FOR_TRAVERSAL

\* an excluded record lies between two discovered nodes and is left out
C5_Witness ==
    /\ ExpandDone
    /\ ~args.cross
    /\ graph_edges # <<>>
    /\ \E k \in DOMAIN edges :
          /\ edges[k].type \in EXCLUDED_EDGE_TYPES_FOR_TRAVERSAL
          /\ edges[k].from \in nodes
          /\ edges[k].to \in nodes

\* the (from, to, type) keys of a list of edge records
KeysOf(es) == { <<es[i].from, es[i].to, es[i].type>> : i \in DOMAIN es }

\* the records of the edge collection with both endpoints in the node set
Internal(ns) == { k \in DOMAIN edges : edges[k].from \in ns /\ edges[k].to \in ns }

\* C12: with closure, the keys of the returned edge list are exactly the keys
\* of the edges of the collection, of any type, whose two endpoints are in
\* the returned node set.
C12_ClosureComplete ==
    (ExpandDone /\ args.cross) =>
        KeysOf(graph_edges) =
            { <<edges[k].from, edges[k].to, edges[k].type>> : k \in Internal(nodes) }

\* the closure added an excluded edge and left out a record that reaches
\* outside the node set
C12_Witness ==
    /\ ExpandDone
    /\ args.cross
    /\ \E i \in DOMAIN graph_edges :
          graph_edges[i].type \in EXCLUDED_EDGE_TYPES_FOR_TRAVERSAL
    /\ \E k \in DOMAIN edges : k \notin Internal(nodes)

\* the cumulative node set when the k-th edge of the result was admitted:
\* the center and the endpoints of the edges admitted before it
NodesBefore(k) ==
    {args.center_id} \cup UNION { {graph_edges[j].from, graph_edges[j].to} : j \in 1..(k - 1) }

\* C19: without closure every ASSOCIATED_WITH edge of the edge list has a
\* non-empty context set and, when it was admitted, one of its context ids
\* was in the cumulative node set or its context set met the context set of
\* an ASSOCIATED_WITH edge admitted earlier.
C19_AssocAdmitted ==
    (args.op = "expand" /\ (pc = "expanding" \/ ~args.cross)) =>
        \A k \in DOMAIN graph_edges :
            graph_edges[k].type = "ASSOCIATED_WITH" =>
                LET ctx_ids == get_context_ids(graph_edges[k].context)
                IN /\ ctx_ids # {}
                   /\ \/ ctx_ids \cap NodesBefore(k) # {}
                      \/ \E j \in 1..(k - 1) :
                            /\ graph_edges[j].type = "ASSOCIATED_WITH"
                            /\ ctx_ids \cap get_context_ids(graph_edges[j].context) # {}

\* one association was admitted; another one at the center, with a context,
\* never met the test and is absent
C19_Witness ==
    /\ ExpandDone
    /\ ~args.cross
    /\ \E k \in DOMAIN graph_edges : graph_edges[k].type = "ASSOCIATED_WITH"
    /\ \E k \in DOMAIN edges :
          /\ edges[k].type = "ASSOCIATED_WITH"
          /\ edges[k].context # <<>>
          /\ args.center_id \in {edges[k].from, edges[k].to}
          /\ <<edges[k].from, edges[k].to, edges[k].type>> \notin KeysOf(graph_edges)

\* the acceptance test of an ASSOCIATED_WITH edge with context set ctx_ids
Acceptable(ctx_ids, ns, awc) ==
    \/ ctx_ids \cap ns # {}
    \/ \E i \in DOMAIN awc : ctx_ids \cap awc[i] # {}

\* C18: after the re-test pass of a level no edge that remains pending (and
\* is not in the edge list) satisfies the acceptance test against the
\* cumulative node set and the accepted contexts at the end of the pass.
C18_NoAcceptablePending ==
    (args.op = "expand" /\ pc = "expanding" /\ lvl > 1) =>
        \A i \in DOMAIN pending_associated_with :
            pending_associated_with[i].edge_key \notin edge_set =>
                ~Acceptable(pending_associated_with[i].ctx_ids, nodes,
                            associated_with_contexts)

\* the entry of list L at index j is the TypeRank-th of its type, and its
\* type first occurs in L at index TypeFirst
TypeRank(L, j) == Cardinality({m \in 1..j : L[m].type = L[j].type})

TypeFirst(L, j) == CHOOSE m \in 1..j :
                      /\ L[m].type = L[j].type
                      /\ \A q \in 1..(m - 1) : L[q].type # L[j].type

\* entry m comes before entry j in round-robin order
RoundRobinBefore(L, m, j) ==
    \/ TypeRank(L, m) < TypeRank(L, j)
    \/ (TypeRank(L, m) = TypeRank(L, j) /\ TypeFirst(L, m) < TypeFirst(L, j))

\* the entries of L in round-robin order across their types
RoundRobinOrder(L) ==
    [p \in DOMAIN L |->
        L[CHOOSE j \in DOMAIN L :
            Cardinality({m \in DOMAIN L : RoundRobinBefore(L, m, j)}) = p - 1]]

\* C20: the entries consumed for a frontier node are a prefix of its
\* adjacency list in round-robin order across types (types in the order of
\* their first occurrence, entries of a type in source order, the k-th
\* entry of every type before the (k+1)-th of any); nothing is consumed
\* after max_fanout new nodes were found, and the node is left only then or
\* when all its entries are consumed.
C20_RoundRobin ==
    (pc = "expanding" /\ locals.phase \in {"while", "for", "nodes"} /\ locals.i >= 1) =>
        /\ Len(locals.consumed) <= Len(locals.all_neighbors)
        /\ locals.consumed =
              SubSeq(RoundRobinOrder(locals.all_neighbors), 1, Len(locals.consumed))
        /\ locals.new_neighbors_count <= args.max_edges
        /\ locals.new_neighbors_count = args.max_edges =>
              locals.found_at = Len(locals.consumed)
        /\ locals.phase = "nodes" =>
              \/ locals.new_neighbors_count = args.max_edges
              \/ Len(locals.consumed) = Len(locals.all_neighbors)

\* a node was left after its entries were consumed across two types in
\* turn: first type, second type, first type again
C20_Witness ==
    /\ pc = "expanding"
    /\ locals.phase = "nodes"
    /\ Len(locals.consumed) >= 3
    /\ locals.consumed[1].type = locals.consumed[3].type
    /\ locals.consumed[1].type # locals.consumed[2].type

\* C22: the edge list of expand, during the expansion and after the closure
\* pass, never holds two records with the same (from, to, type) key.
C22_NoDuplicateKey ==
    args.op = "expand" =>
        \A i, j \in DOMAIN graph_edges :
            i # j => <<graph_edges[i].from, graph_edges[i].to, graph_edges[i].type>>
                        # <<graph_edges[j].from, graph_edges[j].to, graph_edges[j].type>>

\* the edge collection holds one record twice, the closure pass has run and
\* the record is in the edge list together with another edge
C22_Witness ==
    /\ ExpandDone
    /\ args.cross
    /\ Len(graph_edges) >= 2
    /\ \E k1, k2 \in DOMAIN edges :
          /\ k1 # k2
          /\ edges[k1] = edges[k2]
          /\ <<edges[k1].from, edges[k1].to, edges[k1].type>> \in KeysOf(graph_edges)

\* the nodes joined to center by a chain of at most k records of es, none of
\* them of an excluded type, whatever the direction of the records
RECURSIVE ReachWithin(_, _, _)
ReachWithin(es, center, k) ==
    IF k = 0 THEN {center}
    ELSE LET R == ReachWithin(es, center, k - 1)
         IN R \cup { n \in NodeIds :
                        \E i \in DOMAIN es :
                            /\ es[i].type \notin EXCLUDED_EDGE_TYPES_FOR_TRAVERSAL
                            /\ \/ (es[i].from \in R /\ es[i].to = n)
                               \/ (es[i].to \in R /\ es[i].from = n) }

\* C26: when expand returns, with or without closure, every node of the
\* node set is joined to the center by a chain of at most level edges of
\* the returned edge list, none of type RULES_OUT or PERTINENT_NEGATIVE;
\* and the closure pass leaves the node set as it was.
C26_ReachableWithinLevel ==
    [][(pc' = "done" /\ args'.op = "expand") =>
          /\ nodes' \subseteq ReachWithin(graph_edges', args'.center_id, args'.level)
          /\ pc = "expanding" => nodes' = nodes]_vars

\* a two-level expansion with closure returned a node two edges away from
\* the center and an excluded edge between returned nodes
C26_Witness ==
    /\ ExpandDone
    /\ args.cross
    /\ args.level = 2
    /\ nodes \ ReachWithin(graph_edges, args.center_id, 1) # {}
    /\ \E i \in DOMAIN graph_edges :
          graph_edges[i].type \in EXCLUDED_EDGE_TYPES_FOR_TRAVERSAL

\* C27: every record of the edge list of expand has both its from and its
\* to endpoint in the node set, during the expansion, after the admission
\* of pending edges and after the closure pass.
C27_EndpointsInNodes ==
    args.op = "expand" =>
        \A i \in DOMAIN graph_edges :
            graph_edges[i].from \in nodes /\ graph_edges[i].to \in nodes

\* the returned edge list has an association that brought its neighbor into
\* the node set and an edge added by the closure pass
C27_Witness ==
    /\ ExpandDone
    /\ args.cross
    /\ \E i \in DOMAIN graph_edges :
          /\ graph_edges[i].type = "ASSOCIATED_WITH"
          /\ graph_edges[i].context # <<>>
          /\ \E n \in {graph_edges[i].from, graph_edges[i].to} :
                /\ n # args.center_id
                /\ \A j \in DOMAIN graph_edges :
                      (j # i /\ n \in {graph_edges[j].from, graph_edges[j].to}) => j > i
    /\ \E i \in DOMAIN graph_edges :
          graph_edges[i].type \in EXCLUDED_EDGE_TYPES_FOR_TRAVERSAL

\* C29: every ASSOCIATED_WITH record of the returned edge list carries the
\* context of its source record whenever that record has one: when every
\* record of the collection with its key has a context, the returned record
\* has the context of one of them.
C29_ContextCarried ==
    ExpandDone =>
        \A i \in DOMAIN graph_edges :
            graph_edges[i].type = "ASSOCIATED_WITH" =>
                LET src == { k \in DOMAIN edges :
                               <<edges[k].from, edges[k].to, edges[k].type>>
                                 = <<graph_edges[i].from, graph_edges[i].to,
                                     graph_edges[i].type>> }
                IN (\A k \in src : edges[k].context # <<>>) =>
                      \E k \in src : graph_edges[i].context = edges[k].context

\* C21: while the entries of a frontier node are consumed, the budget counter
\* rises by exactly the number of nodes the step adds to the cumulative node
\* set, so an edge recorded towards a known node leaves it as it was; and the
\* node is left with the counter below max_fanout only when all its entries
\* were consumed.
C21_KnownNodesFree ==
    [][(pc = "expanding" /\ locals.phase \in {"for", "while"}) =>
          /\ locals'.new_neighbors_count - locals.new_neighbors_count
                = Cardinality(nodes' \ nodes)
          /\ (Len(graph_edges') > Len(graph_edges) /\ nodes' = nodes) =>
                locals'.new_neighbors_count = locals.new_neighbors_count
          /\ (locals'.phase = "nodes" /\ locals'.new_neighbors_count < args.max_edges) =>
                Len(locals'.consumed) = Len(locals'.all_neighbors)]_vars

\* a frontier node recorded an edge towards a known node and found
\* max_fanout = 2 new nodes
C21_Witness ==
    /\ pc = "expanding"
    /\ locals.phase = "nodes"
    /\ locals.enriched >= 1
    /\ args.max_edges = 2
    /\ locals.new_neighbors_count = 2
    /\ locals.found_at > 2

(***************************************************************************)
(* Properties of merge_edges                                               *)
(***************************************************************************)
SamePair(e1, e2) == {e1.from, e1.to} = {e2.from, e2.to}

IsAssociation(e) == e.type = "ASSOCIATED_WITH"

\* C30: merge_edges removes no existing edge, and for every ASSOCIATED_WITH
\* edge present, with the same unordered endpoint pair, in the existing and
\* in the new list, the merged list has an edge of that pair whose context
\* holds every context id of the existing edge and of the new edge.
C30_ContextsUnited ==
    (pc = "done" /\ args.op = "merge") =>
        /\ Len(locals.merged) >= Len(locals.existing)
        /\ \A k \in DOMAIN locals.existing :
              /\ locals.merged[k].from = locals.existing[k].from
              /\ locals.merged[k].to = locals.existing[k].to
              /\ locals.merged[k].type = locals.existing[k].type
        /\ \A k \in DOMAIN locals.existing, j \in DOMAIN args.new_edges :
              ( /\ IsAssociation(locals.existing[k])
                /\ IsAssociation(args.new_edges[j])
                /\ SamePair(locals.existing[k], args.new_edges[j]) ) =>
                  \E m \in DOMAIN locals.merged :
                      /\ IsAssociation(locals.merged[m])
                      /\ SamePair(locals.merged[m], locals.existing[k])
                      /\ get_context_ids(locals.existing[k].context)
                            \cup get_context_ids(args.new_edges[j].context)
                            \subseteq get_context_ids(locals.merged[m].context)

\* C6: in every level the number of nodes added to the cumulative node set,
\* pending admissions included, is at most (frontier size) x max_fanout.
C6_FanoutBound ==
    [][(pc = "expanding" /\ pc' = "expanding") =>
          Cardinality(nodes' \ nodes) <= Cardinality(current_level_nodes) * args.max_edges]_vars

\* C7: a second run of expand with the same arguments on the same edge
\* collection returns the same node set and the same edge list, whatever
\* order the frontier sets are iterated in.
C7_Deterministic ==
    (ExpandDone /\ first_run.ran) =>
        (nodes = first_run.nodes /\ graph_edges = first_run.edges)

====
